---- MODULE Spec2Model ----
(***************************************************************************)
(* A model of preprocessing.py: the four transformers Standardize, Bin,    *)
(* Shuffler and PolynomialFeatures, the process-wide numpy random stream   *)
(* Shuffler draws from, and the caller's objects the transformers read,    *)
(* copy or overwrite.                                                      *)
(*                                                                         *)
(* Conventions.  None is the empty sequence <<>> and a present value v is  *)
(* <<v>>.  Index arrays hold numpy's 0-based indices; sequences are        *)
(* 1-based, so element k of an array a is a[k+1].  float64 values are      *)
(* modelled by integers, the arithmetic being exact on the inputs drawn,   *)
(* plus the two IEEE values NaN and Inf.                                   *)
(***************************************************************************)
EXTENDS Integers, Sequences, FiniteSets, TLC

VARIABLES
    std,    \* the Standardize instance (None before construction)
    bin,    \* the Bin instance
    shuf,   \* the Shuffler instances, by name
    poly,   \* the PolynomialFeatures instance
    rng,    \* numpy's process-wide random state (None: never seeded here)
    heap,   \* the caller's objects, by identity
    cur,    \* identity of the object the last call returned (0: none)
    ret,    \* what the last call did: its arguments and its outcome
    hist    \* per Shuffler: the arguments it was constructed with and the
            \* shape of the matrix of its first fit

vars == <<std, bin, shuf, poly, rng, heap, cur, ret, hist>>

----------------------------------------------------------------------------
(* Bounds of the model. *)

\* Largest number of rows, and of columns, of a labeled matrix.
MaxDim == 3
\* Largest number of transform / reverse_transform calls applied along one
\* chain of objects.
MaxTrail == 2

None == <<>>
Some(v) == <<v>>

Max(a, b) == IF a >= b THEN a ELSE b
Min(a, b) == IF a <= b THEN a ELSE b

----------------------------------------------------------------------------
(* The outcome record of a call. *)

NoRet ==
    [op |-> "none", who |-> "", exc |-> "", out |-> "none", ref |-> 0,
     arg |-> 0, copy |-> FALSE, val |-> None, res |-> None,
     lex |-> None, lexres |-> None, draws |-> <<>>]

Call(op, who) == [NoRet EXCEPT !.op = op, !.who = who]

Raised(r, exc) == [r EXCEPT !.exc = exc, !.out = "raise"]

\* the caller is between two calls: it holds no outcome it has not looked at
Idle == ret.op = "none"

----------------------------------------------------------------------------
(* numpy's random stream.  The Mersenne Twister behind np.random is        *)
(* abstracted by a small linear congruential generator: a deterministic    *)
(* function of the seed and of the number of values drawn since, which is  *)
(* all the module relies on.  np.random.choice(n, n, replace=False) is     *)
(* permutation(n): a Fisher-Yates shuffle of arange(n) that draws one      *)
(* bounded value for each position from the last down to the second.       *)

RngMod == 32
RngMul == 13
RngInc == 7

RngSeed(seed) == seed % RngMod

RngStep(s) == (RngMul * s + RngInc) % RngMod

\* a value in 0..i from generator state s (the high bits of the state)
RngInterval(s, i) == (s \div 2) % (i + 1)

Swap(x, i, j) == [x EXCEPT ![i + 1] = x[j + 1], ![j + 1] = x[i + 1]]

RECURSIVE RngShuffle(_, _, _)
RngShuffle(x, i, s) ==
    IF i < 1 THEN [perm |-> x, state |-> s]
    ELSE LET s1 == RngStep(s)
             j  == RngInterval(s1, i)
         IN  RngShuffle(Swap(x, i, j), i - 1, s1)

Arange(n) == [k \in 1..n |-> k - 1]

\* get_shuffle_indices(size) for an int size, from generator state s
get_shuffle_indices(size, s) == RngShuffle(Arange(size), size - 1, s)

----------------------------------------------------------------------------
(* The labeled matrix Shuffler works on: data, rowlabels, columnlabels.    *)

Rows(d) == Len(d)
Cols(d) == IF Len(d) = 0 THEN 0 ELSE Len(d[1])

\* the caller's labeled matrix of a shape: every cell and label distinct
LabeledMatrix(r, c) ==
    [data         |-> [i \in 1..r |-> [j \in 1..c |-> 10 * i + j]],
     rowlabels    |-> [i \in 1..r |-> 100 + i],
     columnlabels |-> [j \in 1..c |-> 200 + j]]

\* the sizes a dimension takes: 1 and the two largest
Dims == {1, MaxDim - 1, MaxDim}

ShufInputs == { LabeledMatrix(r, c) : r \in Dims, c \in Dims }

\* a[idx] for an index array idx: IndexError unless every index is in range
IndexOk(n, idx) == \A k \in 1..Len(idx) : idx[k] >= 0 /\ idx[k] < n
Take(a, idx) == [k \in 1..Len(idx) |-> a[idx[k] + 1]]
TakeCols(d, idx) == [i \in 1..Len(d) |-> Take(d[i], idx)]

\* np.argsort(idx): position k holds the index of the k-th smallest entry
ArgsortMut(idx) == idx
Argsort(idx) ==
    LET n == Len(idx)
        rank(j) == Cardinality({ i \in 1..n :
                       idx[i] < idx[j] \/ (idx[i] = idx[j] /\ i < j) })
    IN  [k \in 1..n |-> (CHOOSE j \in 1..n : rank(j) = k - 1) - 1]

\* np.argsort(None) is the argsort of a one-element array
ArgsortOpt(o) == IF o = None THEN <<0>> ELSE Argsort(o[1])

\* The two indexing stages transform and reverse_transform share: rows (data
\* and rowlabels) by ridx when sr, then columns (data and columnlabels) by
\* cidx when sc.  An index out of range raises at the stage it is met, and
\* what an earlier stage assigned stays assigned.
ApplyIndices(m, sr, sc, ridx, cidx) ==
    LET rowsBad == sr /\ ~IndexOk(Rows(m.data), ridx)
        m1 == IF sr /\ ~rowsBad
              THEN [m EXCEPT !.data = Take(m.data, ridx),
                             !.rowlabels = Take(m.rowlabels, ridx)]
              ELSE m
        colsBad == sc /\ ~IndexOk(Len(m1.columnlabels), cidx)
        m2 == IF sc /\ ~colsBad
              THEN [m1 EXCEPT !.data = TakeCols(m1.data, cidx),
                              !.columnlabels = Take(m1.columnlabels, cidx)]
              ELSE m1
    IN  IF rowsBad THEN [val |-> m, exc |-> "IndexError"]
        ELSE IF colsBad THEN [val |-> m1, exc |-> "IndexError"]
        ELSE [val |-> m2, exc |-> ""]

----------------------------------------------------------------------------
(* The caller's objects.  An object holds its value, the value the chain   *)
(* of calls that produced it started from (orig) and the calls applied     *)
(* since (trail).  Identity 1 is the caller's input x; the other two       *)
(* identities are taken in turn by the objects the calls return.  The      *)
(* caller keeps x and the object the last call returned, and lets go of    *)
(* the others when it has looked at a call's outcome.                      *)

ObjIds == {1, 2, 3}

NoObj == None

Obj(v) == Some([val |-> v, orig |-> v, trail |-> <<>>])

Live == { i \in ObjIds : heap[i] # NoObj }

\* the identity a call's new object gets: one that is neither x nor the argument
Fresh(a) == IF a = 2 THEN 3 ELSE 2

\* the heap after a call on argument a that returned a new object with value v
HeapCopy(a, v, op) ==
    [i \in ObjIds |->
        IF i = Fresh(a)
        THEN Some([val |-> v, orig |-> heap[a][1].orig,
                   trail |-> Append(heap[a][1].trail, op)])
        ELSE heap[i]]

\* the heap after a call that wrote v into its argument a
HeapWrite(a, v, op) ==
    [i \in ObjIds |->
        IF i = a
        THEN Some([heap[a][1] EXCEPT !.val = v,
                                    !.trail = Append(heap[a][1].trail, op)])
        ELSE heap[i]]

\* the caller has looked at the last call's outcome and goes on
Discard ==
    /\ ~Idle
    /\ ret' = NoRet
    /\ heap' = [i \in ObjIds |-> IF i = 1 \/ i = cur THEN heap[i] ELSE NoObj]
    /\ UNCHANGED <<std, bin, shuf, poly, rng, cur, hist>>

----------------------------------------------------------------------------
(* Shuffler *)

ShufNames == {"A", "B"}
Seeds == {0, 1}
ExplicitIndices == { <<1, 0>> }
IndexArgs == {None} \cup { Some(x) : x \in ExplicitIndices }

NoInstance ==
    /\ std = None /\ bin = None /\ poly = None
    /\ \A i \in ShufNames : shuf[i] = None

\* Shuffler.__init__
ShufflerInit(i, sr, sc, ri, ci, seed) ==
    /\ Idle
    /\ shuf[i] = None
    /\ shuf' = [shuf EXCEPT ![i] =
                  Some([shuffle_rows_ |-> sr, shuffle_columns_ |-> sc,
                        row_indices_ |-> ri, column_indices_ |-> ci,
                        fitted_ |-> FALSE])]
    /\ rng' = Some(RngSeed(seed))
    /\ hist' = [hist EXCEPT ![i] =
                   Some([seed |-> seed, row_indices |-> ri, column_indices |-> ci,
                         fit_shape |-> None])]
    /\ ret' = [Call("__init__", i) EXCEPT !.out = "None"]
    /\ UNCHANGED <<std, bin, poly, heap, cur>>

\* the guard of fit's draw for one axis
DrawsMut(flag, indices) == flag
Draws(flag, indices) == flag /\ indices = None

\* Shuffler.fit's return value
ShufflerFitReturn == "None"

\* Shuffler.fit
ShufflerFit(i, a) ==
    /\ Idle
    /\ shuf[i] # None
    /\ a \in Live
    /\ LET s  == shuf[i][1]
           m  == heap[a][1].val
           dr == Draws(s.shuffle_rows_, s.row_indices_)
           g1 == IF dr THEN get_shuffle_indices(Rows(m.data), rng[1])
                 ELSE [perm |-> <<>>, state |-> rng[1]]
           dc == Draws(s.shuffle_columns_, s.column_indices_)
           g2 == IF dc THEN get_shuffle_indices(Cols(m.data), g1.state)
                 ELSE [perm |-> <<>>, state |-> g1.state]
       IN  /\ shuf' = [shuf EXCEPT ![i] =
                  Some([s EXCEPT
                      !.row_indices_ = IF dr THEN Some(g1.perm) ELSE @,
                      !.column_indices_ = IF dc THEN Some(g2.perm) ELSE @,
                      !.fitted_ = TRUE])]
           /\ rng' = Some(g2.state)
           /\ ret' = [Call("fit", i) EXCEPT
                      !.out = ShufflerFitReturn, !.arg = a,
                      !.draws = (IF dr THEN <<"rows">> ELSE <<>>)
                                \o (IF dc THEN <<"columns">> ELSE <<>>)]
           /\ hist' = [hist EXCEPT ![i] = Some([@[1] EXCEPT !.fit_shape =
                          IF @ = None THEN Some(<<Rows(m.data), Cols(m.data)>>)
                          ELSE @])]
    /\ UNCHANGED <<std, bin, poly, heap, cur>>

\* How a call that produced value v (or raised exc, leaving v in the object
\* it was working on) ends: with copy the work was done on a copy of the
\* argument, which is returned or, on an exception, dropped; without, on the
\* argument itself.
Finish(r, a, copy, before, v, exc, op) ==
    IF exc = ""
    THEN /\ heap' = IF copy THEN HeapCopy(a, v, op) ELSE HeapWrite(a, v, op)
         /\ cur' = IF copy THEN Fresh(a) ELSE a
         /\ ret' = [r EXCEPT !.out = "ref", !.ref = IF copy THEN Fresh(a) ELSE a]
    ELSE /\ heap' = IF copy \/ v = before THEN heap ELSE HeapWrite(a, v, "failed")
         /\ cur' = cur
         /\ ret' = Raised(r, exc)

\* Shuffler.transform
ShufflerTransform(i, a, copy) ==
    /\ Idle
    /\ shuf[i] # None
    /\ a \in Live
    /\ Len(heap[a][1].trail) < MaxTrail
    /\ LET s == shuf[i][1]
           m == heap[a][1].val
           r == [Call("transform", i) EXCEPT !.arg = a, !.copy = copy]
       IN  IF ~s.fitted_
           THEN /\ ret' = Raised(r, "Exception")
                /\ UNCHANGED <<heap, cur>>
           ELSE LET res == ApplyIndices(m, s.shuffle_rows_, s.shuffle_columns_,
                               IF s.shuffle_rows_ THEN s.row_indices_[1] ELSE <<>>,
                               IF s.shuffle_columns_ THEN s.column_indices_[1] ELSE <<>>)
                IN  Finish(r, a, copy, m, res.val, res.exc, "transform")
    /\ UNCHANGED <<std, bin, shuf, poly, rng, hist>>

\* Shuffler.reverse_transform
ShufflerReverse(i, a, copy) ==
    /\ Idle
    /\ shuf[i] # None
    /\ a \in Live
    /\ Len(heap[a][1].trail) < MaxTrail
    /\ LET s == shuf[i][1]
           m == heap[a][1].val
           r == [Call("reverse_transform", i) EXCEPT !.arg = a, !.copy = copy]
           res == ApplyIndices(m, s.shuffle_rows_, s.shuffle_columns_,
                      IF s.shuffle_rows_ THEN ArgsortOpt(s.row_indices_) ELSE <<>>,
                      IF s.shuffle_columns_ THEN ArgsortOpt(s.column_indices_) ELSE <<>>)
       IN  Finish(r, a, copy, m, res.val, res.exc, "reverse_transform")
    /\ UNCHANGED <<std, bin, shuf, poly, rng, hist>>

\* the caller builds the labeled matrix x it is going to pass
NewLabeledMatrix(m) ==
    /\ Idle
    /\ \E i \in ShufNames : shuf[i] # None
    /\ heap' = [i \in ObjIds |-> IF i = 1 THEN Obj(m) ELSE NoObj]
    /\ cur' = 0
    /\ ret' = [Call("new", "") EXCEPT !.out = "ref", !.ref = 1]
    /\ UNCHANGED <<std, bin, shuf, poly, rng, hist>>

----------------------------------------------------------------------------
(* numpy arrays: nd is the rank, dtype the element type, a the elements as  *)
(* a sequence of rows (a rank-1 array is held as its one row).              *)

Array1(dtype, q) == [nd |-> 1, dtype |-> dtype, a |-> <<q>>]
Array2(dtype, a) == [nd |-> 2, dtype |-> dtype, a |-> a]

EmptyArray == Array1("float64", <<>>)

\* matrix.size
Size(m) == Rows(m.a) * Cols(m.a)

\* numpy broadcasting of two rank-2 arrays
BroadcastOk(x, y) ==
    /\ Rows(x) = Rows(y) \/ Rows(x) = 1 \/ Rows(y) = 1
    /\ Cols(x) = Cols(y) \/ Cols(x) = 1 \/ Cols(y) = 1

\* whether the broadcast of x and y has x's own shape (an in-place operator
\* on x raises ValueError otherwise)
BroadcastInto(x, y) ==
    /\ Rows(y) = Rows(x) \/ Rows(y) = 1
    /\ Cols(y) = Cols(x) \/ Cols(y) = 1

At(x, i, j) == x[IF Rows(x) = 1 THEN 1 ELSE i][IF Cols(x) = 1 THEN 1 ELSE j]

Sub(a, b) == a - b
Mul(a, b) == a * b
Add(a, b) == a + b
\* true division, on operands whose quotient is an integer
Div(a, b) == IF a >= 0 THEN a \div b ELSE -((-a) \div b)

Broadcast(Op(_, _), x, y) ==
    [i \in 1..Max(Rows(x), Rows(y)) |->
        [j \in 1..Max(Cols(x), Cols(y)) |-> Op(At(x, i, j), At(y, i, j))]]

----------------------------------------------------------------------------
(* Standardize *)

RECURSIVE SumSeq(_)
SumSeq(q) == IF q = <<>> THEN 0 ELSE q[1] + SumSeq(Tail(q))

\* the slices of a rank-2 array along an axis: its columns for axis 0, its
\* rows for axis 1
Slices(a, axis) ==
    IF axis = 0 THEN [j \in 1..Cols(a) |-> [i \in 1..Rows(a) |-> a[i][j]]]
    ELSE a

\* n * n * variance of a slice
SqDev(q) == Len(q) * SumSeq([k \in 1..Len(q) |-> q[k] * q[k]]) - SumSeq(q) * SumSeq(q)

IsSquare(n) == \E r \in 0..n : r * r = n
Sqrt(n) == CHOOSE r \in 0..n : r * r = n

\* the slices whose mean and standard deviation are integers
ExactStats(a, axis) ==
    \A k \in 1..Len(Slices(a, axis)) :
        LET q == Slices(a, axis)[k]
        IN  /\ SumSeq(q) % Len(q) = 0
            /\ IsSquare(SqDev(q))
            /\ Sqrt(SqDev(q)) % Len(q) = 0

Mean(q) == SumSeq(q) \div Len(q)
StdDev(q) == Sqrt(SqDev(q)) \div Len(q)

\* np.expand_dims(..., axis): a row of per-column values for axis 0, a
\* column of per-row values for axis 1
ExpandDims(q, axis) ==
    IF axis = 0 THEN << q >> ELSE [i \in 1..Len(q) |-> << q[i] >>]

\* np.abs(x) < NEARZERO for an integer x
NearZero(x) == x = 0

\* get_mean_and_std, on a non-empty array
get_mean_and_std(m, axis) ==
    IF ~(m.nd > 0) \/ ~(Size(m) > 0) \/ ~(axis >= 0 /\ axis < m.nd)
    THEN [exc |-> "AssertionError", mean |-> None, std |-> None]
    ELSE LET sl    == Slices(m.a, axis)
             mmean == ExpandDims([k \in 1..Len(sl) |-> Mean(sl[k])], axis)
             mstd  == ExpandDims([k \in 1..Len(sl) |-> StdDev(sl[k])], axis)
         IN  IF \E k \in 1..Len(sl) : NearZero(StdDev(sl[k]))
             THEN [exc |-> "Exception", mean |-> None, std |-> None]
             ELSE [exc |-> "", mean |-> Some(mmean), std |-> Some(mstd)]

\* Standardize.__init__
StandardizeInit(axis) ==
    /\ Idle
    /\ IF ~(axis >= 0)
       THEN /\ std' = std
            /\ ret' = Raised(Call("__init__", "std"), "AssertionError")
       ELSE /\ std' = Some([axis_ |-> axis, mean_ |-> None, std_ |-> None])
            /\ ret' = [Call("__init__", "std") EXCEPT !.out = "None"]
    /\ UNCHANGED <<bin, shuf, poly, rng, heap, cur, hist>>

\* Standardize.fit
StandardizeFit(a) ==
    /\ Idle
    /\ std # None
    /\ a \in Live
    /\ heap[a][1].trail = <<>>
    /\ LET m == heap[a][1].val
           s == std[1]
           r == [Call("fit", "std") EXCEPT !.arg = a]
       IN  /\ (m.nd = 2 /\ Size(m) > 0 /\ s.axis_ < 2) => ExactStats(m.a, s.axis_)
           /\ LET g == get_mean_and_std(m, s.axis_)
              IN  IF g.exc # ""
                  THEN /\ std' = std
                       /\ ret' = Raised(r, g.exc)
                  ELSE /\ std' = Some([s EXCEPT !.mean_ = g.mean, !.std_ = g.std])
                       /\ ret' = [r EXCEPT !.out = "self"]
    /\ UNCHANGED <<bin, shuf, poly, rng, heap, cur, hist>>

\* whether standardize / reverse_standardize work on a copy
WorksOnCopyMut(copy) == TRUE
WorksOnCopy(copy) == copy

\* standardize: the value the array worked on ends with, or the exception
standardize(m, mmean, mstd, axis, copy) ==
    IF ~copy /\ m.dtype # "float64" THEN [exc |-> "TypeError", val |-> m]
    ELSE IF ~(m.nd > 0) \/ ~(Size(m) > 0) \/ ~(axis >= 0 /\ axis < m.nd)
            \/ mmean = None \/ mstd = None
    THEN [exc |-> "AssertionError", val |-> m]
    ELSE IF (WorksOnCopy(copy) /\ ~BroadcastOk(m.a, mmean[1]))
            \/ (~WorksOnCopy(copy) /\ ~BroadcastInto(m.a, mmean[1]))
    THEN [exc |-> "ValueError", val |-> m]
    ELSE LET d == Broadcast(Sub, m.a, mmean[1])
         IN  [exc |-> "", val |-> Array2("float64", Broadcast(Div, d, mstd[1]))]

\* reverse_standardize
reverse_standardize(m, mmean, mstd, axis, copy) ==
    IF ~copy /\ m.dtype # "float64" THEN [exc |-> "TypeError", val |-> m]
    ELSE IF ~(m.nd > 0) \/ ~(Size(m) > 0) \/ ~(axis >= 0 /\ axis < m.nd)
    THEN [exc |-> "AssertionError", val |-> m]
    ELSE IF (WorksOnCopy(copy) /\ ~BroadcastOk(m.a, mstd[1]))
            \/ (~WorksOnCopy(copy) /\ ~BroadcastInto(m.a, mstd[1]))
    THEN [exc |-> "ValueError", val |-> m]
    ELSE LET d == Broadcast(Mul, m.a, mstd[1])
         IN  [exc |-> "", val |-> Array2("float64", Broadcast(Add, d, mmean[1]))]

\* the quotients standardize takes are integers
ExactQuotients(m, mmean, mstd) ==
    (m.nd = 2 /\ Size(m) > 0 /\ BroadcastOk(m.a, mmean)) =>
        LET d == Broadcast(Sub, m.a, mmean)
        IN  \A i \in 1..Rows(d), j \in 1..Cols(d) : d[i][j] % At(mstd, i, j) = 0

\* Standardize.transform
StandardizeTransform(a, copy) ==
    /\ Idle
    /\ std # None
    /\ a \in Live
    /\ Len(heap[a][1].trail) < MaxTrail
    /\ LET s == std[1]
           m == heap[a][1].val
           r == [Call("transform", "std") EXCEPT !.arg = a, !.copy = copy]
       IN  IF s.mean_ = None \/ s.std_ = None
           THEN /\ ret' = Raised(r, "AssertionError")
                /\ UNCHANGED <<heap, cur>>
           ELSE /\ ExactQuotients(m, s.mean_[1], s.std_[1])
                /\ LET res == standardize(m, s.mean_, s.std_, s.axis_, copy)
                   IN  Finish(r, a, WorksOnCopy(copy), m, res.val, res.exc, "transform")
    /\ UNCHANGED <<std, bin, shuf, poly, rng, hist>>

\* Standardize.reverse_transform
StandardizeReverse(a, copy) ==
    /\ Idle
    /\ std # None
    /\ a \in Live
    /\ Len(heap[a][1].trail) < MaxTrail
    /\ LET s == std[1]
           m == heap[a][1].val
           r == [Call("reverse_transform", "std") EXCEPT !.arg = a, !.copy = copy]
       IN  IF s.mean_ = None \/ s.std_ = None
           THEN /\ ret' = Raised(r, "AssertionError")
                /\ UNCHANGED <<heap, cur>>
           ELSE LET res == reverse_standardize(m, s.mean_, s.std_, s.axis_, copy)
                IN  Finish(r, a, WorksOnCopy(copy), m, res.val, res.exc, "reverse_transform")
    /\ UNCHANGED <<std, bin, shuf, poly, rng, hist>>

StdVals == {0, 2}
StdDims == {1, 2}
StdInputs ==
    {EmptyArray} \cup
    { Array2(t, [i \in 1..r |-> [j \in 1..c |-> f[<<i, j>>]]]) :
        <<t, r, c, f>> \in
          UNION { UNION { {"float64", "int64"} \X {r} \X {c}
                            \X [(1..r) \X (1..c) -> StdVals] :
                            c \in StdDims } : r \in StdDims } }

\* the caller builds the array x it is going to pass
NewArray(m) ==
    /\ Idle
    /\ std # None
    /\ heap' = [i \in ObjIds |-> IF i = 1 THEN Obj(m) ELSE NoObj]
    /\ cur' = 0
    /\ ret' = [Call("new", "") EXCEPT !.out = "ref", !.ref = 1]
    /\ UNCHANGED <<std, bin, shuf, poly, rng, hist>>

----------------------------------------------------------------------------
(* Bin.  The elements of the arrays Bin reads are float64 values: a finite  *)
(* number v (k = "num"), +infinity or NaN.  A decile of integer data is a   *)
(* multiple of 1/10, so deciles are held in tenths.                         *)

Num(v) == [k |-> "num", v |-> v]
Inf == [k |-> "inf", v |-> 0]
NaN == [k |-> "nan", v |-> 0]

\* Largest finite element of an array Bin reads
MaxVal == 4

\* x <= d for an element x and a decile d (in tenths), as IEEE 754 compares
LeDecile(x, d) ==
    IF x.k = "nan" \/ d.k = "nan" THEN FALSE
    ELSE IF d.k = "inf" THEN TRUE
    ELSE IF x.k = "inf" THEN FALSE
    ELSE 10 * x.v <= d.v

\* the elements of an array in one sequence (row by row)
RECURSIVE Concat(_)
Concat(rows) == IF rows = <<>> THEN <<>> ELSE rows[1] \o Concat(Tail(rows))
Flat(m) == Concat(m.a)

RECURSIVE Insert(_, _)
Insert(x, q) ==
    IF q = <<>> THEN <<x>>
    ELSE IF x <= q[1] THEN <<x>> \o q ELSE <<q[1]>> \o Insert(x, Tail(q))
RECURSIVE Sorted(_)
Sorted(q) == IF q = <<>> THEN <<>> ELSE Insert(q[1], Sorted(Tail(q)))

\* np.percentile(q, 10 * k) of finite numbers, in tenths: linear
\* interpolation between the two order statistics around k * (n - 1) / 10
Percentile10(q, k) ==
    LET a   == Sorted(q)
        pos == k * (Len(q) - 1)
        lo  == pos \div 10
        fr  == pos % 10
    IN  IF fr = 0 THEN 10 * a[lo + 1]
        ELSE 10 * a[lo + 1] + fr * (a[lo + 2] - a[lo + 1])

\* the decile replaced by the sentinel (deciles[-1], the tenth)
Sentinel == 10

\* get_deciles(matrix, axis=None), the matrix given by its rank and elements
get_deciles(nd, q) ==
    IF ~(nd > 0) \/ ~(Len(q) > 0) THEN [exc |-> "AssertionError", val |-> <<>>]
    ELSE [exc |-> "",
          val |-> [k \in 1..10 |-> IF k = Sentinel THEN Inf
                                   ELSE Num(Percentile10([i \in 1..Len(q) |-> q[i].v], k))]]

\* the loop of bin_by_decile: i runs from 9 down to 0 and every pass
\* overwrites the positions whose element is <= deciles[i]
RECURSIVE BinLoop(_, _, _, _, _)
BinLoop(binned, q, deciles, bin_start, i) ==
    IF i < 0 THEN binned
    ELSE BinLoop([p \in 1..Len(q) |->
                     IF LeDecile(q[p], deciles[i + 1]) THEN i + bin_start
                     ELSE binned[p]],
                 q, deciles, bin_start, i - 1)

\* bin_by_decile(matrix, deciles, bin_start, axis=None) on the elements q of
\* a matrix of rank nd: the labels, position by position
bin_by_decile(nd, q, deciles, bin_start) ==
    IF ~(nd > 0) \/ ~(Len(q) > 0) \/ ~(Len(deciles) = 10)
    THEN [exc |-> "AssertionError", val |-> <<>>]
    ELSE [exc |-> "",
          val |-> BinLoop([p \in 1..Len(q) |-> 0], q, deciles, bin_start, 9)]

\* Bin.__init__
BinInit(bin_start, axis) ==
    /\ Idle
    /\ IF axis # None /\ axis # Some(1) /\ axis # Some(0)
       THEN /\ bin' = bin
            /\ ret' = Raised(Call("__init__", "bin"), "NotImplementedError")
       ELSE /\ bin' = Some([deciles_ |-> None, bin_start_ |-> bin_start, axis_ |-> axis])
            /\ ret' = [Call("__init__", "bin") EXCEPT !.out = "None"]
    /\ UNCHANGED <<std, shuf, poly, rng, heap, cur, hist>>

\* what iterating over matrix.T (axis 0) or matrix (axis 1) yields: rank-1
\* slices of a rank-2 matrix, rank-0 scalars of a rank-1 matrix
Pieces(m, axis) ==
    IF m.nd = 1 THEN [k \in 1..Len(m.a[1]) |-> [nd |-> 0, q |-> <<m.a[1][k]>>]]
    ELSE LET sl == Slices(m.a, axis)
         IN  [k \in 1..Len(sl) |-> [nd |-> 1, q |-> sl[k]]]

\* the loop of Bin.fit for axis 0 or 1: deciles_ after the pieces from the
\* k-th on were visited, and the exception that ended the loop, if any
RECURSIVE FitLoop(_, _, _)
FitLoop(pieces, k, acc) ==
    IF k > Len(pieces) THEN [exc |-> "", val |-> acc]
    ELSE LET g == get_deciles(pieces[k].nd, pieces[k].q)
         IN  IF g.exc # "" THEN [exc |-> g.exc, val |-> acc]
             ELSE FitLoop(pieces, k + 1, Append(acc, g.val))

\* Bin.fit
BinFit(m) ==
    /\ Idle
    /\ bin # None
    /\ LET b == bin[1]
           r == [Call("fit", "bin") EXCEPT !.val = Some(m)]
       IN  IF b.axis_ = None
           THEN LET g == get_deciles(m.nd, Flat(m))
                IN  IF g.exc # ""
                    THEN /\ bin' = bin
                         /\ ret' = Raised(r, g.exc)
                    ELSE /\ bin' = Some([b EXCEPT !.deciles_ = Some(g.val)])
                         /\ ret' = [r EXCEPT !.out = "self"]
           ELSE LET g == FitLoop(Pieces(m, b.axis_[1]), 1, <<>>)
                IN  /\ bin' = Some([b EXCEPT !.deciles_ = Some(g.val)])
                    /\ ret' = IF g.exc # "" THEN Raised(r, g.exc)
                              ELSE [r EXCEPT !.out = "self"]
    /\ UNCHANGED <<std, shuf, poly, rng, heap, cur, hist>>

\* the loop of Bin.transform for axis 0 or 1 over zip(pieces, deciles_)
RECURSIVE TransformLoop(_, _, _, _, _)
TransformLoop(pieces, deciles, bin_start, k, acc) ==
    IF k > Min(Len(pieces), Len(deciles)) THEN [exc |-> "", val |-> acc]
    ELSE LET g == bin_by_decile(pieces[k].nd, pieces[k].q, deciles[k], bin_start)
         IN  IF g.exc # "" THEN [exc |-> g.exc, val |-> <<>>]
             ELSE TransformLoop(pieces, deciles, bin_start, k + 1, Append(acc, g.val))

\* the labels as an array of the matrix's shape
Reshape(m, labels) ==
    IF m.nd = 1 THEN Array1("float64", labels)
    ELSE Array2("float64",
             [i \in 1..Rows(m.a) |->
                 [j \in 1..Cols(m.a) |-> labels[(i - 1) * Cols(m.a) + j]]])

\* Bin.transform: the result or the exception
BinResult(b, m) ==
    IF b.deciles_ = None THEN [exc |-> "AssertionError", val |-> None]
    ELSE IF b.axis_ = None
    THEN LET g == bin_by_decile(m.nd, Flat(m), b.deciles_[1], b.bin_start_)
         IN  IF g.exc # "" THEN [exc |-> g.exc, val |-> None]
             ELSE [exc |-> "", val |-> Some(Reshape(m, g.val))]
    ELSE LET g == TransformLoop(Pieces(m, b.axis_[1]), b.deciles_[1],
                                b.bin_start_, 1, <<>>)
         IN  IF g.exc # "" THEN [exc |-> g.exc, val |-> None]
             \* np.vstack of an empty list
             ELSE IF g.val = <<>> THEN [exc |-> "ValueError", val |-> None]
             \* assert res.shape == matrix.shape
             ELSE IF Len(g.val) # Len(Pieces(m, b.axis_[1]))
             THEN [exc |-> "AssertionError", val |-> None]
             ELSE [exc |-> "",
                   val |-> Some(Array2("float64",
                              IF b.axis_[1] = 1 THEN g.val
                              ELSE Slices(g.val, 0)))]

\* Bin.transform
BinTransform(m, copy) ==
    /\ Idle
    /\ bin # None
    /\ LET res == BinResult(bin[1], m)
           r   == [Call("transform", "bin") EXCEPT !.copy = copy, !.val = Some(m)]
       IN  ret' = IF res.exc # "" THEN Raised(r, res.exc)
                  ELSE [r EXCEPT !.out = "value", !.res = res.val]
    /\ UNCHANGED <<std, bin, shuf, poly, rng, heap, cur, hist>>

\* Bin.reverse_transform
BinReverse(m, copy) ==
    /\ Idle
    /\ bin # None
    /\ ret' = Raised([Call("reverse_transform", "bin") EXCEPT
                          !.copy = copy, !.val = Some(m)],
                     "NotImplementedError")
    /\ UNCHANGED <<std, bin, shuf, poly, rng, heap, cur, hist>>

\* the rank-1 arrays of up to two elements
Short(S) == UNION { [1..k -> S] : k \in {0, 1, 2} }

FiniteVals == { Num(v) : v \in 0..MaxVal }
FloatVals == FiniteVals \cup {Inf, NaN}

\* the arrays Bin is fitted on: finite numbers
BinFitInputs ==
    { Array1("float64", q) : q \in Short(FiniteVals) }
    \cup { Array2("float64", <<q, q>>) : q \in [1..2 -> FiniteVals] }

\* the arrays Bin transforms
BinInputs ==
    { Array1("float64", q) : q \in Short(FloatVals) }
    \cup { Array2("float64", <<q, q>>) : q \in [1..2 -> FiniteVals] }

BinStarts == {0, 1}

----------------------------------------------------------------------------
(* PolynomialFeatures.  A string is the sequence of its characters.        *)

\* Largest degree, and largest number of input columns
MaxDegree == 2
MaxFeat == 2

\* itertools.combinations(range(n), k) (rep = FALSE) and
\* combinations_with_replacement(range(n), k) (rep = TRUE), as the sequence
\* of index tuples in the order they are produced; Combs gives those whose
\* indices are all >= lo
RECURSIVE Combs(_, _, _, _), CombsFrom(_, _, _, _)
Combs(lo, n, k, rep) ==
    IF k = 0 THEN << <<>> >> ELSE CombsFrom(lo, n, k, rep)
CombsFrom(f, n, k, rep) ==
    IF f > n - 1 THEN <<>>
    ELSE LET rest == Combs(IF rep THEN f ELSE f + 1, n, k - 1, rep)
         IN  [t \in 1..Len(rest) |-> <<f>> \o rest[t]] \o CombsFrom(f + 1, n, k, rep)

\* the first combination size _combinations chains from
StartMut(include_bias) == 1
Start(include_bias) == IF include_bias THEN 0 ELSE 1

\* chain.from_iterable(comb(range(n), i) for i in range(from, degree + 1))
RECURSIVE Chain(_, _, _, _)
Chain(n, from, degree, rep) ==
    IF from > degree THEN <<>>
    ELSE Combs(0, n, from, rep) \o Chain(n, from + 1, degree, rep)

\* PolynomialFeatures._combinations
Combinations(n_features, degree, interaction_only, include_bias) ==
    Chain(n_features, Start(include_bias), degree, ~interaction_only)

\* typeutil's predicates on the element type
is_numeric_matrix(m) == m.dtype \in {"float64", "int64"}
is_lexical_matrix(m) == m.dtype = "object"

\* PolynomialFeatures.__init__
PolyInit(degree, interaction_only, include_bias) ==
    /\ Idle
    /\ poly' = Some([degree_ |-> degree, interaction_only_ |-> interaction_only,
                     include_bias_ |-> include_bias,
                     n_input_features_ |-> None, n_output_features_ |-> None])
    /\ ret' = [Call("__init__", "poly") EXCEPT !.out = "None"]
    /\ UNCHANGED <<std, bin, shuf, rng, heap, cur, hist>>

\* the record of a call on matrix m: a numeric argument (and result) under
\* val (res), a lexical one under lex (lexres)
WithArg(r, m) ==
    IF is_lexical_matrix(m) THEN [r EXCEPT !.lex = Some(m)]
    ELSE [r EXCEPT !.val = Some(m)]
WithResult(r, m, v) ==
    IF is_lexical_matrix(m) THEN [r EXCEPT !.out = "value", !.lexres = v]
    ELSE [r EXCEPT !.out = "value", !.res = v]

PolyFit(m) ==
    /\ Idle
    /\ poly # None
    /\ LET q == poly[1]
           r == WithArg(Call("fit", "poly"), m)
       IN  IF ~(m.nd = 2) \/ ~(Size(m) > 0)
           THEN /\ poly' = poly
                /\ ret' = Raised(r, "AssertionError")
           ELSE LET n_features == Cols(m.a)
                    combinations == Combinations(n_features, q.degree_,
                                        q.interaction_only_, q.include_bias_)
                IN  /\ poly' = Some([q EXCEPT
                                  !.n_input_features_ = Some(Cols(m.a)),
                                  !.n_output_features_ = Some(Len(combinations))])
                    /\ ret' = [r EXCEPT !.out = "self"]
    /\ UNCHANGED <<std, bin, shuf, rng, heap, cur, hist>>

\* matrix[r, c].prod(): the product of row r's elements in the columns c
RECURSIVE Prod(_, _)
Prod(row, c) == IF c = <<>> THEN 1 ELSE row[c[1] + 1] * Prod(row, Tail(c))

\* sep.join(items) for a list of strings
RECURSIVE Join(_, _)
Join(sep, items) ==
    IF items = <<>> THEN <<>>
    ELSE IF Len(items) = 1 THEN items[1]
    ELSE items[1] \o sep \o Join(sep, Tail(items))

\* the characters of a string, each a string of its own
Chars(str) == [k \in 1..Len(str) |-> <<str[k]>>]

\* sep.join(np.squeeze(matrix[:, c]).tolist()): squeeze drops the axes of
\* length 1 of the (rows, len(c)) selection.  What is left is a string (its
\* characters are joined), a list of strings, or a list of lists, which
\* join refuses.
JoinSelection(sep, a, c) ==
    LET n == Rows(a)
        k == Len(c)
    IN  IF n = 1 /\ k = 1 THEN [exc |-> "", val |-> Join(sep, Chars(a[1][c[1] + 1]))]
        ELSE IF n = 1 THEN [exc |-> "", val |-> Join(sep, Take(a[1], c))]
        ELSE IF k = 1
        THEN [exc |-> "", val |-> Join(sep, [i \in 1..n |-> a[i][c[1] + 1]])]
        ELSE [exc |-> "TypeError", val |-> <<>>]

Star == <<"*">>

\* the separator of output column i (0-based)
Separator(i, n_features, include_bias) ==
    LET n_poly1_feats == n_features + (IF include_bias THEN 1 ELSE 0)
    IN  IF i >= n_poly1_feats THEN Star ELSE <<>>

\* the value a numeric output column takes in row r
NumericCell(row, c) == Prod(row, c)

\* the loop of transform over enumerate(combinations): the output columns
\* filled so far, or the exception that ended it
RECURSIVE PolyLoop(_, _, _, _, _)
PolyLoop(m, q, combinations, i, cols) ==
    IF i >= Len(combinations) THEN [exc |-> "", val |-> cols]
    ELSE LET c == combinations[i + 1]
         IN  IF is_numeric_matrix(m)
             THEN PolyLoop(m, q, combinations, i + 1,
                      Append(cols, [r \in 1..Rows(m.a) |-> NumericCell(m.a[r], c)]))
             ELSE IF is_lexical_matrix(m)
             THEN LET x == JoinSelection(
                               Separator(i, Cols(m.a), q.include_bias_), m.a, c)
                  IN  IF x.exc # "" THEN [exc |-> x.exc, val |-> cols]
                      ELSE PolyLoop(m, q, combinations, i + 1,
                               Append(cols, [r \in 1..Rows(m.a) |-> x.val]))
             ELSE [exc |-> "TypeError", val |-> cols]

\* PolynomialFeatures.transform: the result or the exception
PolyResult(q, m) ==
    IF ~(m.nd = 2) \/ ~(Size(m) > 0) THEN [exc |-> "AssertionError", val |-> None]
    ELSE IF q.n_input_features_ = None THEN [exc |-> "AttributeError", val |-> None]
    ELSE IF Cols(m.a) # q.n_input_features_[1] THEN [exc |-> "ValueError", val |-> None]
    ELSE LET g == PolyLoop(m, q,
                      Combinations(Cols(m.a), q.degree_, q.interaction_only_,
                                   q.include_bias_),
                      0, <<>>)
         IN  IF g.exc # "" THEN [exc |-> g.exc, val |-> None]
             ELSE [exc |-> "",
                   val |-> Some(Array2(m.dtype,
                      [r \in 1..Rows(m.a) |->
                          [i \in 1..q.n_output_features_[1] |-> g.val[i][r]]]))]

\* PolynomialFeatures.transform
PolyTransform(m, copy) ==
    /\ Idle
    /\ poly # None
    /\ LET res == PolyResult(poly[1], m)
           r   == WithArg([Call("transform", "poly") EXCEPT !.copy = copy], m)
       IN  ret' = IF res.exc # "" THEN Raised(r, res.exc)
                  ELSE WithResult(r, m, res.val)
    /\ UNCHANGED <<std, bin, shuf, poly, rng, heap, cur, hist>>

\* PolynomialFeatures.reverse_transform
PolyReverse(m, copy) ==
    /\ Idle
    /\ poly # None
    /\ ret' = Raised(WithArg([Call("reverse_transform", "poly") EXCEPT
                                  !.copy = copy], m),
                     "NotImplementedError")
    /\ UNCHANGED <<std, bin, shuf, poly, rng, heap, cur, hist>>

\* the matrices of one or two rows and up to MaxFeat columns over S
Matrices(dtype, S) ==
    { Array2(dtype, rows) :
        rows \in UNION { UNION { [1..r -> [1..c -> S]] : c \in 1..MaxFeat } :
                         r \in {1, 2} } }

PolyVals == {2, 3}
PolyStrs == { <<"a">>, <<"b">> }

PolyNumInputs == Matrices("float64", PolyVals)
PolyLexInputs == Matrices("object", PolyStrs)

----------------------------------------------------------------------------
(* Specifications *)

Init ==
    /\ std = None
    /\ bin = None
    /\ poly = None
    /\ shuf = [i \in ShufNames |-> None]
    /\ rng = None
    /\ heap = [i \in ObjIds |-> NoObj]
    /\ cur = 0
    /\ ret = NoRet
    /\ hist = [i \in ShufNames |-> None]

ShufflerNew ==
    \E sr \in BOOLEAN, sc \in BOOLEAN, ri \in IndexArgs, ci \in IndexArgs,
       seed \in Seeds :
        NoInstance /\ ShufflerInit("A", sr, sc, ri, ci, seed)

ShufflerCalls ==
    \/ \E m \in ShufInputs : NewLabeledMatrix(m)
    \/ \E a \in ObjIds : ShufflerFit("A", a)
    \/ \E a \in ObjIds, copy \in BOOLEAN : ShufflerTransform("A", a, copy)
    \/ \E a \in ObjIds, copy \in BOOLEAN : ShufflerReverse("A", a, copy)

StandardizeNew == \E axis \in {-1, 0, 1, 2} : NoInstance /\ StandardizeInit(axis)

StandardizeCalls ==
    \/ \E m \in StdInputs : NewArray(m)
    \/ \E a \in ObjIds : StandardizeFit(a)
    \/ \E a \in ObjIds, copy \in BOOLEAN : StandardizeTransform(a, copy)
    \/ \E a \in ObjIds, copy \in BOOLEAN : StandardizeReverse(a, copy)

BinNew ==
    \E bin_start \in BinStarts, axis \in {None, Some(0), Some(1), Some(2)} :
        NoInstance /\ BinInit(bin_start, axis)

BinCalls ==
    \/ \E m \in BinFitInputs : BinFit(m)
    \/ \E m \in BinInputs, copy \in BOOLEAN : BinTransform(m, copy)
    \/ \E m \in BinInputs, copy \in BOOLEAN : BinReverse(m, copy)

PolyNew ==
    \E degree \in 0..MaxDegree, interaction_only \in BOOLEAN, include_bias \in BOOLEAN :
        NoInstance /\ PolyInit(degree, interaction_only, include_bias)

PolyCalls ==
    \/ \E m \in PolyNumInputs \cup {EmptyArray} : PolyFit(m)
    \/ \E m \in PolyLexInputs : PolyFit(m)
    \/ \E m \in PolyNumInputs \cup {EmptyArray}, copy \in BOOLEAN : PolyTransform(m, copy)
    \/ \E m \in PolyLexInputs, copy \in BOOLEAN : PolyTransform(m, copy)
    \/ \E m \in PolyNumInputs, copy \in BOOLEAN : PolyReverse(m, copy)

\* a program that uses one transformer
Next ==
    \/ ShufflerNew
    \/ ShufflerCalls
    \/ StandardizeNew
    \/ StandardizeCalls
    \/ BinNew
    \/ BinCalls
    \/ PolyNew
    \/ PolyCalls
    \/ Discard

Spec == Init /\ [][Next]_vars

\* a program that uses a Shuffler
\* a program that uses two Shufflers, constructed without explicit indices
ShufflerPair ==
    \/ \E i \in ShufNames, sr \in BOOLEAN, sc \in BOOLEAN, seed \in Seeds :
          ShufflerInit(i, sr, sc, None, None, seed)
    \/ \E m \in ShufInputs : NewLabeledMatrix(m)
    \/ \E i \in ShufNames, a \in ObjIds : ShufflerFit(i, a)

NextPair == ShufflerPair \/ Discard
SpecPair == Init /\ [][NextPair]_vars

NextShuffler == ShufflerNew \/ ShufflerCalls \/ Discard
SpecShuffler == Init /\ [][NextShuffler]_vars

\* a program that uses a Bin
NextBin == BinNew \/ BinCalls \/ Discard
SpecBin == Init /\ [][NextBin]_vars

\* a program that uses a Standardize
NextStd == StandardizeNew \/ StandardizeCalls \/ Discard
SpecStd == Init /\ [][NextStd]_vars

\* a program that uses a PolynomialFeatures
NextPoly == PolyNew \/ PolyCalls \/ Discard
SpecPoly == Init /\ [][NextPoly]_vars

\* a program that uses a Standardize or a Shuffler
NextCopy ==
    \/ StandardizeNew
    \/ StandardizeCalls
    \/ ShufflerNew
    \/ ShufflerCalls
    \/ Discard
SpecCopy == Init /\ [][NextCopy]_vars

----------------------------------------------------------------------------
(* Properties *)

ShapeOf(m) == <<Rows(m.data), Cols(m.data)>>

\* Shuffler i's first fit was on a matrix of X's shape and drew the indices
\* of every axis it shuffles
DrawnByFitOn(i, X) ==
    /\ shuf[i] # None
    /\ hist[i][1].fit_shape = Some(ShapeOf(X))
    /\ shuf[i][1].shuffle_rows_ => hist[i][1].row_indices = None
    /\ shuf[i][1].shuffle_columns_ => hist[i][1].column_indices = None

RoundTrip == <<"transform", "reverse_transform">>

\* C1: for a Shuffler fitted on X with indices drawn by fit, whatever the
\* setting of (shuffle_rows, shuffle_columns), reverse_transform of
\* transform(X) has exactly X's data, rowlabels and columnlabels.
C1_RoundTrip ==
    \A a \in ObjIds :
        (/\ heap[a] # NoObj
         /\ heap[a][1].trail = RoundTrip
         /\ DrawnByFitOn("A", heap[a][1].orig))
        => heap[a][1].val = heap[a][1].orig

\* a round trip through both permutations, the column permutation not its
\* own inverse
C1_Witness ==
    \E a \in ObjIds :
        /\ heap[a] # NoObj
        /\ heap[a][1].trail = RoundTrip
        /\ DrawnByFitOn("A", heap[a][1].orig)
        /\ shuf["A"][1].shuffle_rows_ /\ shuf["A"][1].shuffle_columns_
        /\ Argsort(shuf["A"][1].column_indices_[1]) # shuf["A"][1].column_indices_[1]
        /\ Take(heap[a][1].orig.rowlabels, shuf["A"][1].row_indices_[1])
              # heap[a][1].orig.rowlabels
        /\ heap[a][1].val = heap[a][1].orig

\* C2: two Shufflers constructed with the same seed and flags and no explicit
\* indices, each fitted on a matrix of the same shape, hold identical row
\* and column permutations, in whatever order the two constructions and the
\* two fits were made.
C2_SamePermutations ==
    (/\ shuf["A"] # None /\ shuf["B"] # None
     /\ hist["A"][1].seed = hist["B"][1].seed
     /\ shuf["A"][1].shuffle_rows_ = shuf["B"][1].shuffle_rows_
     /\ shuf["A"][1].shuffle_columns_ = shuf["B"][1].shuffle_columns_
     /\ hist["A"][1].row_indices = None /\ hist["A"][1].column_indices = None
     /\ hist["B"][1].row_indices = None /\ hist["B"][1].column_indices = None
     /\ hist["A"][1].fit_shape # None
     /\ hist["A"][1].fit_shape = hist["B"][1].fit_shape)
    => /\ shuf["A"][1].row_indices_ = shuf["B"][1].row_indices_
       /\ shuf["A"][1].column_indices_ = shuf["B"][1].column_indices_

\* the last call was Bin.transform with axis=None and returned
BinTransformed ==
    /\ ret.op = "transform" /\ ret.who = "bin" /\ ret.out = "value"
    /\ bin[1].axis_ = None

\* label is bin_start + min{i in 0..9 : x <= deciles_[i]}
MinLabel(x, label) ==
    \E i \in 0..9 :
        /\ LeDecile(x, bin[1].deciles_[1][i + 1])
        /\ \A j \in 0..(i - 1) : ~LeDecile(x, bin[1].deciles_[1][j + 1])
        /\ label = bin[1].bin_start_ + i

\* x is above every fitted decile
Above(x) ==
    /\ x.k # "nan"
    /\ \A j \in 0..8 : ~LeDecile(x, bin[1].deciles_[1][j + 1])

LabelOk(x, label) ==
    /\ MinLabel(x, label)
    /\ label >= bin[1].bin_start_ /\ label <= bin[1].bin_start_ + 9
    /\ Above(x) => label = bin[1].bin_start_ + 9

\* C3: every element x of the input gets the label bin_start +
\* min{i in 0..9 : x <= deciles_[i]}, which lies in [bin_start, bin_start+9],
\* and is bin_start+9 for an element above every fitted decile.
C3_EveryElement ==
    BinTransformed =>
        /\ bin[1].deciles_[1][10] = Inf
        /\ \A p \in 1..Len(Flat(ret.val[1])) :
            LabelOk(Flat(ret.val[1])[p], Flat(ret.res[1])[p])

\* the index combinations of size k over n columns, each written in
\* increasing order: without repetition, or with
IndexTuples(n, k, rep) ==
    { t \in [1..k -> 0..(n - 1)] :
        \A a \in 1..(k - 1) : IF rep THEN t[a] <= t[a + 1] ELSE t[a] < t[a + 1] }

AllTuples(n) ==
    UNION { IndexTuples(n, k, ~poly[1].interaction_only_) :
            k \in (IF poly[1].include_bias_ THEN 0 ELSE 1)..poly[1].degree_ }

\* s comes before t: smaller, or of the same size and lexicographically less
Before(s, t) ==
    \/ Len(s) < Len(t)
    \/ /\ Len(s) = Len(t)
       /\ \E k \in 1..Len(s) : s[k] < t[k] /\ \A j \in 1..(k - 1) : s[j] = t[j]

\* the i-th combination (from 1) in that order
Nth(n, i) ==
    CHOOSE c \in AllTuples(n) :
        Cardinality({ d \in AllTuples(n) : Before(d, c) }) = i - 1

\* C4: on a numeric matrix with n columns, fit sets n_output_features_ to the
\* number of index combinations of sizes start..degree, and transform returns
\* a matrix of that many columns whose i-th column is, row by row, the
\* product of the row's values in the columns of the i-th combination, by
\* increasing size and lexicographic order; the empty combination gives 1.
C4_Combinations ==
    /\ (/\ ret.op = "fit" /\ ret.who = "poly" /\ ret.out = "self"
        /\ ret.val # None)
       => poly[1].n_output_features_
              = Some(Cardinality(AllTuples(Cols(ret.val[1].a))))
    /\ (/\ ret.op = "transform" /\ ret.who = "poly" /\ ret.out = "value"
        /\ ret.val # None)
       => LET m == ret.val[1].a
              n == Cols(m)
              out == ret.res[1].a
          IN  /\ poly[1].n_output_features_ = Some(Cardinality(AllTuples(n)))
              /\ Rows(out) = Rows(m)
              /\ \A r \in 1..Rows(m) :
                    /\ Len(out[r]) = Cardinality(AllTuples(n))
                    /\ \A i \in 1..Len(out[r]) :
                          /\ out[r][i] = Prod(m[r], Nth(n, i))
                          /\ Nth(n, i) = <<>> => out[r][i] = 1

\* bias, powers and products of two columns, on two different rows
C4_Witness ==
    /\ ret.op = "transform" /\ ret.who = "poly" /\ ret.out = "value"
    /\ ret.val # None
    /\ poly[1].include_bias_ /\ ~poly[1].interaction_only_ /\ poly[1].degree_ = 2
    /\ ret.val[1].a = << <<2, 3>>, <<3, 2>> >>
    /\ ret.res[1].a = << <<1, 2, 3, 4, 6, 9>>, <<1, 3, 2, 9, 6, 4>> >>

\* the instance a call was made on has no fitted parameters
Unfitted(who) ==
    CASE who = "std"  -> std[1].mean_ = None /\ std[1].std_ = None
      [] who = "bin"  -> bin[1].deciles_ = None
      [] who = "poly" -> poly[1].n_input_features_ = None
      [] OTHER        -> ~shuf[who][1].fitted_ /\ hist[who][1].fit_shape = None

\* C5: on an instance never fitted, every transform, and every
\* reverse_transform of Standardize and Shuffler, fails with an error.
C5_UnfittedFails ==
    (/\ \/ ret.op = "transform"
        \/ ret.op = "reverse_transform" /\ ret.who \in {"std", "A", "B"}
     /\ Unfitted(ret.who))
    => ret.out = "raise"

\* what a transform or reverse_transform of value v computes
Computed(op, who, v) ==
    IF who = "std"
    THEN IF op = "transform"
         THEN standardize(v, std[1].mean_, std[1].std_, std[1].axis_, TRUE).val
         ELSE reverse_standardize(v, std[1].mean_, std[1].std_, std[1].axis_, TRUE).val
    ELSE LET s == shuf[who][1]
         IN  IF op = "transform"
             THEN ApplyIndices(v, s.shuffle_rows_, s.shuffle_columns_,
                      IF s.shuffle_rows_ THEN s.row_indices_[1] ELSE <<>>,
                      IF s.shuffle_columns_ THEN s.column_indices_[1] ELSE <<>>).val
             ELSE ApplyIndices(v, s.shuffle_rows_, s.shuffle_columns_,
                      IF s.shuffle_rows_ THEN ArgsortOpt(s.row_indices_) ELSE <<>>,
                      IF s.shuffle_columns_ THEN ArgsortOpt(s.column_indices_) ELSE <<>>).val

\* C6: a transform or reverse_transform of Standardize or Shuffler that
\* returns, called with copy=True leaves the caller's object as it was and
\* returns another object; called with copy=False it writes the result into
\* the caller's object and returns that object.
C6_CopySemantics ==
    [][(/\ ret'.op \in {"transform", "reverse_transform"}
        /\ ret'.who \in {"std", "A"}
        /\ ret'.out = "ref")
       => IF ret'.copy
          THEN /\ ret'.ref # ret'.arg
               /\ heap'[ret'.arg] = heap[ret'.arg]
               /\ heap'[ret'.ref][1].val
                     = Computed(ret'.op, ret'.who, heap[ret'.arg][1].val)
          ELSE /\ ret'.ref = ret'.arg
               /\ heap'[ret'.arg][1].val
                     = Computed(ret'.op, ret'.who, heap[ret'.arg][1].val)
               /\ \A i \in ObjIds \ {ret'.arg} : heap'[i] = heap[i]]_vars

\* transform with copy=True left x as it was and returned object 2, which
\* reverse_transform with copy=False then overwrote and returned
C6_Witness ==
    /\ ret.op = "reverse_transform" /\ ret.who = "std" /\ ret.out = "ref"
    /\ ~ret.copy /\ ret.arg = 2 /\ ret.ref = 2
    /\ heap[1] # NoObj /\ heap[1][1].trail = <<>>
    /\ heap[2] # NoObj /\ heap[2][1].trail = RoundTrip
    /\ heap[1][1].val.dtype = "int64"
    /\ heap[2][1].val.a = heap[1][1].val.a

\* the fitted parameters of the instance are stored
Stored(who) ==
    CASE who = "std"  -> std[1].mean_ # None /\ std[1].std_ # None
      [] who = "bin"  -> bin[1].deciles_ # None
      [] who = "poly" -> poly[1].n_input_features_ # None
                         /\ poly[1].n_output_features_ # None
      [] OTHER        -> shuf[who][1].fitted_

\* C7: a fit that completes returns the instance it was called on, with its
\* fitted parameters stored.
C7_FitReturnsSelf ==
    (ret.op = "fit" /\ ret.out # "raise") => (ret.out = "self" /\ Stored(ret.who))

\* the combination's separator: none up to degree 1, "*" from degree 2
SepOf(c) == IF Len(c) >= 2 THEN Star ELSE <<>>

\* C8: on a lexical matrix of any number of rows, transform fills column i of
\* row r with the concatenation of row r's own values in the columns of the
\* i-th combination, joined by "*" for a combination of degree 2 or more.
C8_PerRowJoin ==
    (/\ ret.op = "transform" /\ ret.who = "poly"
     /\ ret.lex # None
     /\ poly[1].n_input_features_ = Some(Cols(ret.lex[1].a)))
    => /\ ret.out = "value"
       /\ LET m == ret.lex[1].a
              out == ret.lexres[1].a
          IN  \A r \in 1..Rows(m) :
                  /\ Len(out[r]) = Cardinality(AllTuples(Cols(m)))
                  /\ \A i \in 1..Len(out[r]) :
                        out[r][i] = Join(SepOf(Nth(Cols(m), i)),
                                         Take(m[r], Nth(Cols(m), i)))

\* C9: once a Shuffler holds a row (column) permutation, given explicitly or
\* drawn by an earlier fit, a later fit leaves it as it is and draws nothing
\* for it, whatever the shape of the matrix it is given.
C9_HeldIndicesKept ==
    [][(ret'.op = "fit" /\ ret'.who = "A")
       => /\ shuf["A"][1].row_indices_ # None
             => /\ shuf'["A"][1].row_indices_ = shuf["A"][1].row_indices_
                /\ \A k \in 1..Len(ret'.draws) : ret'.draws[k] # "rows"
          /\ shuf["A"][1].column_indices_ # None
             => /\ shuf'["A"][1].column_indices_ = shuf["A"][1].column_indices_
                /\ \A k \in 1..Len(ret'.draws) : ret'.draws[k] # "columns"]_vars

\* a later fit, on a matrix of another shape, of a Shuffler that shuffles
\* both axes with permutations its first fit drew
C9_Witness ==
    /\ ret.op = "fit" /\ ret.who = "A" /\ ret.draws = <<>>
    /\ shuf["A"][1].shuffle_rows_ /\ shuf["A"][1].shuffle_columns_
    /\ hist["A"][1].row_indices = None /\ hist["A"][1].column_indices = None
    /\ heap[ret.arg] # NoObj
    /\ Len(shuf["A"][1].row_indices_[1]) # Rows(heap[ret.arg][1].val.data)
    /\ Len(shuf["A"][1].column_indices_[1]) # Cols(heap[ret.arg][1].val.data)

\* C10: a fit that raises leaves the instance's fitted parameters as they
\* were before the call.
C10_FailedFitKeepsState ==
    [][(ret'.op = "fit" /\ ret'.out = "raise")
       => (std' = std /\ bin' = bin /\ shuf' = shuf /\ poly' = poly)]_vars

====
